---- MODULE Spec2Model ----
(***************************************************************************)
(* Model of ytdlp-service/app.py: the POST /download handler of the        *)
(* yt-dlp audio download service.                                          *)
(*                                                                         *)
(* Strings that the code slices or compares character by character (the    *)
(* API key and the Authorization header) are sequences of one-character    *)
(* strings.  URLs, extensions and message fragments are atoms.             *)
(*                                                                         *)
(* The handler is cut into steps at the points where it touches the        *)
(* filesystem, so that concurrent requests interleave there.  The          *)
(* collaborators (Flask's get_json and send_file, tempfile, yt-dlp) are    *)
(* modelled by the outcomes they can hand back to the handler.             *)
(***************************************************************************)
EXTENDS Integers, Sequences, FiniteSets, TLC

\* ------------------------------------------------------------------ bounds
NumRequests == 2

Requests == 1..NumRequests
DirNames == 1..NumRequests

\* ----------------------------------------------------------------- strings
Bearer == <<"B", "e", "a", "r", "e", "r", " ">>
Basic == <<"B", "a", "s", "i", "c", " ">>
K1 == <<"k", "1">>
K2 == <<"k", "2">>

\* s.startswith(p)
StartsWith(s, p) == Len(s) >= Len(p) /\ SubSeq(s, 1, Len(p)) = p

\* s[n:]
SliceFrom(s, n) == SubSeq(s, n + 1, Len(s))

\* An optional string: os.environ.get(name) and headers.get(name) give None
\* when the name is absent.
Unset == [set |-> FALSE, val |-> <<>>]
Str(s) == [set |-> TRUE, val |-> s]

\* Values of the API_KEY environment variable at startup.
ApiKeys == {Unset, Str(<<>>), Str(K1)}

\* Authorization headers a client may send.
Headers ==
    { Unset,
      Str(Bearer \o K1),
      Str(Bearer \o K2),
      Str(Basic \o K1),
      Str(Bearer \o K1 \o <<"x">>) }

\* request.headers.get('Authorization', '')
auth_header(h) == IF h.set THEN h.val ELSE <<>>

\* Python truthiness of an optional string: None and '' are false.
Truthy(k) == k.set /\ k.val # <<>>

\* Lines 35-38 with the bearer token not compared.
UnauthorizedPrefixOnly(key, h) ==
    Truthy(key) /\ ~StartsWith(auth_header(h), Bearer)

\* Lines 35-38 with the check not guarded by `if API_KEY`.
UnauthorizedAlways(key, h) ==
    \/ ~StartsWith(auth_header(h), Bearer)
    \/ SliceFrom(auth_header(h), 7) # key.val

\* Lines 35-38: the request is answered 401.
Unauthorized(key, h) ==
    /\ Truthy(key)
    /\ \/ ~StartsWith(auth_header(h), Bearer)
       \/ SliceFrom(auth_header(h), 7) # key.val

\* ------------------------------------------------------------ request body
U1 == "http://a/1"
U2 == "http://b/2"
NoUrl == "<None>"

\* Request bodies: no body, bytes that are not JSON, a JSON array, and JSON
\* objects without `url` or with a null `url` (data.get gives None: NoUrl),
\* with an empty `url`, and with a URL.
Bodies ==
    { [kind |-> "absent", url |-> NoUrl],
      [kind |-> "garbage", url |-> NoUrl],
      [kind |-> "array", url |-> NoUrl],
      [kind |-> "object", url |-> NoUrl],
      [kind |-> "object", url |-> ""],
      [kind |-> "object", url |-> U1],
      [kind |-> "object", url |-> U2] }

\* Exceptions are records of the class and str(e); str(e) is a sequence of
\* fragments so that a message can embed the URL.
NoExc == [type |-> "None", msg |-> <<>>]
Exc(t, m) == [type |-> t, msg |-> m]

\* The classes the handler can meet, each with its base classes.
Bases(t) ==
    CASE t = "DownloadError" -> {"DownloadError", "YoutubeDLError", "Exception"}
      [] t = "BadRequest" -> {"BadRequest", "HTTPException", "Exception"}
      [] t = "AttributeError" -> {"AttributeError", "Exception"}
      [] t = "OSError" -> {"OSError", "Exception"}
      [] t = "Exception" -> {"Exception"}
      [] OTHER -> {}

\* request.get_json(): what line 41 can produce for a body.  A body that is
\* not JSON raises an HTTPException (BadRequest on a parse failure,
\* UnsupportedMediaType on a foreign content type) or yields None, depending
\* on the request's content type and the Flask release.
get_json(b) ==
    IF b.kind \in {"absent", "garbage"}
    THEN {[raised |-> TRUE, data |-> "None"], [raised |-> FALSE, data |-> "None"]}
    ELSE {[raised |-> FALSE, data |-> b.kind]}

\* Lines 41-42: the exception raised by get_json() or by data.get('url'), or
\* NoExc.
ParseExc(b, j) ==
    IF j.raised THEN Exc("BadRequest", <<"400 Bad Request">>)
    ELSE IF j.data = "None"
    THEN Exc("AttributeError", <<"'NoneType' object has no attribute 'get'">>)
    ELSE IF j.data = "array"
    THEN Exc("AttributeError", <<"'list' object has no attribute 'get'">>)
    ELSE NoExc

\* Line 44: `not url`.
UrlMissing(url) == url \in {NoUrl, ""}

\* ---------------------------------------------------------------- responses
NoFile == <<"None", "None">>
NoResp ==
    [status |-> 0, kind |-> "none", keys |-> {}, error |-> "", details |-> <<>>,
     mimetype |-> "", download_name |-> "", file |-> NoFile]

\* jsonify({'error': e}), status
jsonify(status, e) ==
    [status |-> status, kind |-> "json", keys |-> {"error"}, error |-> e,
     details |-> <<>>, mimetype |-> "application/json", download_name |-> "",
     file |-> NoFile]

\* jsonify({'error': e, 'details': d}), status
jsonifyDetails(status, e, d) ==
    [status |-> status, kind |-> "json", keys |-> {"error", "details"}, error |-> e,
     details |-> d, mimetype |-> "application/json", download_name |-> "",
     file |-> NoFile]

\* Lines 85-90: send_file opens the file and wraps the open handle in the
\* response; the bytes are read when the server iterates the response.
send_file(handle) ==
    [status |-> 200, kind |-> "file", keys |-> {}, error |-> "", details |-> <<>>,
     mimetype |-> "audio/mpeg", download_name |-> "audio.mp3", file |-> handle]

\* Lines 92-104 with the generic clause first.
ExceptClauseGenericFirst(e) ==
    IF "Exception" \in Bases(e.type) THEN 2
    ELSE IF "DownloadError" \in Bases(e.type) THEN 1
    ELSE 0

\* Lines 92-104 without the generic clause.
ExceptClauseDownloadOnly(e) ==
    IF "DownloadError" \in Bases(e.type) THEN 1 ELSE 0

\* Lines 92-104: the except clause that catches e (0: none does).
ExceptClause(e) ==
    IF "DownloadError" \in Bases(e.type) THEN 1
    ELSE IF "Exception" \in Bases(e.type) THEN 2
    ELSE 0

\* Lines 93 and 100 with the message left out of the entry.
ErrorLogNoMessage(c, e) ==
    IF c = 1 THEN [level |-> "error", text |-> <<"yt-dlp download error: ">>]
    ELSE [level |-> "error", text |-> <<"Unexpected error: ">>]

\* Lines 93 and 100: the entry logged by the clause.
ErrorLog(c, e) ==
    IF c = 1 THEN [level |-> "error", text |-> <<"yt-dlp download error: ">> \o e.msg]
    ELSE [level |-> "error", text |-> <<"Unexpected error: ">> \o e.msg]

\* Lines 94-97 and 101-104: the response of the clause.
ErrorResponse(c, e) ==
    IF c = 1 THEN jsonifyDetails(400, "Download failed", e.msg)
    ELSE jsonifyDetails(500, "Internal server error", e.msg)

\* --------------------------------------------------------------- filesystem
\* The sets of extensions a pipeline run that returns may have written.
Written == {{}, {"mp3"}, {"m4a"}, {"mp3", "m4a"}, {"m4a", "webm"}}

\* What ydl.extract_info(url, download=True) can do (line 69): raise a
\* DownloadError, raise another error after writing the downloaded stream, or
\* return after writing files named audio.<ext>.
Outcomes(u) ==
    { [kind |-> "DownloadError", msg |-> <<"ERROR: Unsupported URL: ", u>>, files |-> {}],
      [kind |-> "OSError", msg |-> <<"No space left on device">>, files |-> {"webm"}] }
    \cup { [kind |-> "ok", msg |-> <<>>, files |-> F] : F \in Written }
NoOutcome == [kind |-> "none", msg |-> <<>>, files |-> {}]

\* tempfile: the names mkdtemp may return, with no check for an existing one.
mkdtempAny(f) == DirNames

\* tempfile: mkdtemp returns a name that does not exist.
mkdtemp(f) == DirNames \ DOMAIN f

\* Line 50 with a directory that is never removed.
TemporaryDirectoryExitLeak(f, d) == f

\* Line 50, leaving the `with` block: the directory and its files are removed.
TemporaryDirectoryExit(f, d) == [x \in DOMAIN f \ {d} |-> f[x]]

\* The files of directory d (none when d does not exist).
FilesOf(f, d) == IF d \in DOMAIN f THEN f[d].files ELSE [e \in {} |-> U1]

\* Lines 72-80 without the preference for audio.mp3.
FindAudioAnyMatch(names) == names

\* Lines 72-80: the names that audio_file may end up as (empty: line 80
\* raises).  glob lists in an order the filesystem decides.
FindAudio(names) == IF "mp3" \in names THEN {"mp3"} ELSE names

\* -------------------------------------------------------------------- state
VARIABLES
    API_KEY,    \* line 19: read from the environment at startup
    req,        \* per request: the handler's position and local variables
    fs          \* the temporary directories on disk: name -> owner and files

vars == <<API_KEY, req, fs>>

NoEnv == [json |-> "none", mk |-> "none", out |-> NoOutcome, pick |-> "none", open |-> "none"]

\* A request that has not arrived yet.
Idle ==
    [pc |-> "idle", header |-> Unset, body |-> [kind |-> "absent", url |-> NoUrl],
     url |-> NoUrl, temp_dir |-> 0, audio_file |-> "none", exc |-> NoExc,
     resp |-> NoResp, sent |-> NoFile, log |-> <<>>, env |-> NoEnv]

Init ==
    /\ API_KEY \in ApiKeys
    /\ req = [r \in Requests |-> Idle]
    /\ fs = [d \in {} |-> [owner |-> 0, files |-> [e \in {} |-> U1]]]

\* raise e inside the try block, outside / inside the `with` block
Raise(q, e, inWith) ==
    [q EXCEPT !.exc = e, !.pc = IF inWith THEN "cleanup" ELSE "except"]

\* Lines 34-47: authentication, body parsing, URL validation.
Begin(r) ==
    /\ req[r].pc = "idle"
    /\ \E h \in Headers, b \in Bodies :
         LET q == [req[r] EXCEPT !.header = h, !.body = b] IN
         IF Unauthorized(API_KEY, h)
         THEN req' = [req EXCEPT ![r] =
                        [q EXCEPT !.resp = jsonify(401, "Unauthorized"), !.pc = "return"]]
         ELSE \E j \in get_json(b) :
                LET e == ParseExc(b, j)
                    qj == [q EXCEPT !.env.json = IF j.raised THEN "raise" ELSE j.data]
                IN
                req' = [req EXCEPT ![r] =
                    IF e # NoExc THEN Raise(qj, e, FALSE)
                    ELSE IF UrlMissing(b.url)
                    THEN [qj EXCEPT !.url = b.url,
                                    !.resp = jsonify(400, "No URL provided"),
                                    !.pc = "return"]
                    ELSE [qj EXCEPT !.url = b.url,
                                    !.log = Append(@, [level |-> "info",
                                        text |-> <<"Downloading audio from: ", b.url>>]),
                                    !.pc = "mktemp"]]
    /\ UNCHANGED <<API_KEY, fs>>

\* Line 50, entering the `with` block: the directory is created, or the
\* creation fails.
MkTemp(r) ==
    /\ req[r].pc = "mktemp"
    /\ \/ /\ req' = [req EXCEPT ![r] =
                Raise([@ EXCEPT !.env.mk = "fail"],
                      Exc("OSError", <<"No usable temporary directory">>), FALSE)]
          /\ UNCHANGED fs
       \/ \E d \in mkdtemp(fs) :
            /\ fs' = (d :> [owner |-> r, files |-> [e \in {} |-> U1]]) @@ fs
            /\ req' = [req EXCEPT ![r] =
                 [@ EXCEPT !.temp_dir = d, !.env.mk = "ok", !.pc = "extract"]]
    /\ UNCHANGED API_KEY

\* Lines 68-69: the pipeline runs to completion or failure, writing
\* <temp_dir>/audio.<ext>.
Extract(r) ==
    /\ req[r].pc = "extract"
    /\ LET d == req[r].temp_dir IN
       IF d \notin DOMAIN fs
       THEN /\ req' = [req EXCEPT ![r] =
                 Raise(@, Exc("OSError", <<"No such file or directory">>), TRUE)]
            /\ UNCHANGED fs
       ELSE \E o \in Outcomes(req[r].url) :
            /\ fs' = [fs EXCEPT ![d].files =
                        [e \in DOMAIN @ \cup o.files |->
                            IF e \in o.files THEN req[r].url ELSE @[e]]]
            /\ req' = [req EXCEPT ![r] =
                 IF o.kind = "ok"
                 THEN [@ EXCEPT !.env.out = o, !.pc = "discover"]
                 ELSE Raise([@ EXCEPT !.env.out = o], Exc(o.kind, o.msg), TRUE)]
    /\ UNCHANGED API_KEY

\* Lines 72-82: output discovery.
Discover(r) ==
    /\ req[r].pc = "discover"
    /\ LET names == DOMAIN FilesOf(fs, req[r].temp_dir)
           found == FindAudio(names)
       IN
       IF found = {}
       THEN req' = [req EXCEPT ![r] =
                Raise(@, Exc("Exception", <<"Downloaded file not found">>), TRUE)]
       ELSE \E a \in found :
              req' = [req EXCEPT ![r] =
                [@ EXCEPT !.audio_file = a, !.env.pick = a,
                          !.log = Append(@, [level |-> "info",
                                             text |-> <<"Download complete: ", a>>]),
                          !.pc = "send"]]
    /\ UNCHANGED <<API_KEY, fs>>

\* Lines 85-90: send_file opens audio_file, or the open fails.
SendFile(r) ==
    /\ req[r].pc = "send"
    /\ LET files == FilesOf(fs, req[r].temp_dir)
           a == req[r].audio_file
       IN
       \/ /\ a \in DOMAIN files
          /\ req' = [req EXCEPT ![r] =
               [@ EXCEPT !.resp = send_file(<<files[a], a>>), !.env.open = "ok",
                         !.pc = "cleanup"]]
       \/ req' = [req EXCEPT ![r] =
               Raise([@ EXCEPT !.env.open = "fail"],
                     Exc("OSError", <<"cannot open file">>), TRUE)]
    /\ UNCHANGED <<API_KEY, fs>>

\* Line 50, leaving the `with` block, by the return of line 85 or by an
\* exception: the directory is removed (the removal of a directory the process
\* has just created and filled is taken to succeed), then the return value
\* or the exception goes on.
ExitWith(r) ==
    /\ req[r].pc = "cleanup"
    /\ fs' = TemporaryDirectoryExit(fs, req[r].temp_dir)
    /\ req' = [req EXCEPT ![r].pc = IF req[r].exc # NoExc THEN "except" ELSE "return"]
    /\ UNCHANGED API_KEY

\* Lines 92-104: the except clauses log and build the error response.
Except(r) ==
    /\ req[r].pc = "except"
    /\ LET e == req[r].exc
           c == ExceptClause(e)
       IN
       req' = [req EXCEPT ![r] =
          IF c = 0 THEN [@ EXCEPT !.pc = "uncaught"]
          ELSE [@ EXCEPT !.log = Append(@, ErrorLog(c, e)),
                         !.resp = ErrorResponse(c, e),
                         !.pc = "return"]]
    /\ UNCHANGED <<API_KEY, fs>>

\* The handler returns its response to the server.
Return(r) ==
    /\ req[r].pc = "return"
    /\ req' = [req EXCEPT ![r].pc = "done"]
    /\ UNCHANGED <<API_KEY, fs>>

\* The server iterates a file response: the bytes are read from the handle
\* that send_file opened.
Stream(r) ==
    /\ req[r].pc = "done"
    /\ req[r].resp.kind = "file"
    /\ req' = [req EXCEPT ![r] = [@ EXCEPT !.sent = req[r].resp.file, !.pc = "sent"]]
    /\ UNCHANGED <<API_KEY, fs>>

\* One request's handler, lines 30-104.
download(r) ==
    \/ Begin(r)
    \/ MkTemp(r)
    \/ Extract(r)
    \/ Discover(r)
    \/ SendFile(r)
    \/ ExitWith(r)
    \/ Except(r)
    \/ Return(r)
    \/ Stream(r)

Next == \E r \in Requests : download(r)

Spec == Init /\ [][Next]_vars

\* ---------------------------------------------------------------- properties
Finished(r) == req[r].pc \in {"done", "sent"}

\* The request holds a temporary directory: it is inside the `with` block.
InWith(r) == req[r].pc \in {"extract", "discover", "send", "cleanup"}

\* The request passed authentication and URL validation.
Validated(r) == req[r].pc \notin {"idle"} /\ req[r].url \notin {NoUrl, ""}

IsUnauthorized(resp) ==
    /\ resp.status = 401
    /\ resp.kind = "json"
    /\ resp.keys = {"error"}
    /\ resp.error = "Unauthorized"

IsNoUrl(resp) ==
    /\ resp.status = 400
    /\ resp.kind = "json"
    /\ resp.keys = {"error"}
    /\ resp.error = "No URL provided"

IsError(resp, status, error, details) ==
    /\ resp.status = status
    /\ resp.kind = "json"
    /\ resp.keys = {"error", "details"}
    /\ resp.error = error
    /\ resp.details = details

\* C1: with a configured (non-empty) API_KEY, a request whose Authorization
\* header is not exactly 'Bearer ' + API_KEY is answered 401
\* {"error": "Unauthorized"} whatever its body, and a request with exactly
\* that header is never answered 401.
C1_AuthEnforced ==
    \A r \in Requests :
        (Truthy(API_KEY) /\ req[r].pc # "idle") =>
            IF req[r].header = Str(Bearer \o API_KEY.val)
            THEN req[r].resp.status # 401
            ELSE IsUnauthorized(req[r].resp)

\* Both cases of C1 at once: a rejected request that carried a valid URL and a
\* wrong token, and an accepted one that went on to a 200.
C1_Witness ==
    /\ Truthy(API_KEY)
    /\ \E r1, r2 \in Requests :
        /\ Finished(r1) /\ Finished(r2)
        /\ req[r1].header = Str(Bearer \o K1 \o <<"x">>)
        /\ req[r1].body.url = U1
        /\ req[r1].resp.status = 401
        /\ req[r2].header = Str(Bearer \o API_KEY.val)
        /\ req[r2].resp.status = 200

\* C2: a request that passes authentication and whose body does not parse or
\* has no non-empty `url` (body {}, {"url": ""}, unparseable, absent) is
\* answered 400 {"error": "No URL provided"}.
C2_NoUrlAlways400 ==
    \A r \in Requests :
        ( /\ Finished(r)
          /\ req[r].resp.status # 401
          /\ \/ req[r].body.kind # "object"
             \/ req[r].body.url \in {NoUrl, ""} )
        => IsNoUrl(req[r].resp)

\* C3: once a request has completed, on every exit path, the temporary
\* directory created for it and the files in it are gone.
C3_Cleanup ==
    \A r \in Requests :
        Finished(r) => \A d \in DOMAIN fs : fs[d].owner # r

\* Two completed requests that each had a directory with files in it: one
\* answered 200, one answered with an error.
C3_Witness ==
    \E r1, r2 \in Requests :
        /\ Finished(r1) /\ Finished(r2)
        /\ req[r1].temp_dir # 0 /\ req[r1].env.out.files # {}
        /\ req[r1].resp.status = 200
        /\ req[r2].temp_dir # 0 /\ req[r2].env.out.files # {}
        /\ req[r2].resp.status = 500

\* C4: a request that passed authentication and URL validation and then
\* fails is answered 400 "Download failed" when the pipeline raised a
\* DownloadError and 500 "Internal server error" for every other failure,
\* with `details` the message of the error.
C4_FailureTranslation ==
    \A r \in Requests :
        (Finished(r) /\ Validated(r) /\ req[r].resp.status # 200) =>
            /\ req[r].exc # NoExc
            /\ IF req[r].env.out.kind = "DownloadError"
               THEN IsError(req[r].resp, 400, "Download failed", req[r].env.out.msg)
               ELSE IsError(req[r].resp, 500, "Internal server error", req[r].exc.msg)

\* A download error and a missing output file, both answered.
C4_Witness ==
    \E r1, r2 \in Requests :
        /\ Finished(r1) /\ Finished(r2)
        /\ req[r1].env.out.kind = "DownloadError"
        /\ req[r1].resp.status = 400
        /\ req[r2].env.out.kind = "ok"
        /\ req[r2].exc = Exc("Exception", <<"Downloaded file not found">>)
        /\ req[r2].resp.status = 500

\* x occurs in the sequence s
Contains(s, x) == \E i \in DOMAIN s : s[i] = x

\* every fragment of m occurs in s
ContainsAll(s, m) == \A i \in DOMAIN m : Contains(s, m[i])

C6_ReadBeforeDelete ==
    \A r \in Requests :
        (req[r].resp.kind = "file" /\ req[r].pc \in {"return", "done", "sent"})
        => req[r].sent = req[r].resp.file

\* C7: after a successful pipeline call, audio.mp3 is served when it exists;
\* otherwise one of the files matching audio.*; with no match, no file is
\* served and the request fails with 500 "Internal server error".
C7_OutputDiscovery ==
    \A r \in Requests :
        (req[r].env.out.kind = "ok" /\ req[r].pc # "discover") =>
            LET F == req[r].env.out.files IN
            /\ "mp3" \in F => req[r].audio_file = "mp3"
            /\ ("mp3" \notin F /\ F # {}) => req[r].audio_file \in F
            /\ F = {} =>
                 /\ req[r].audio_file = "none"
                 /\ req[r].resp.kind # "file"
                 /\ Finished(r) =>
                      IsError(req[r].resp, 500, "Internal server error",
                              <<"Downloaded file not found">>)
            /\ req[r].resp.kind = "file" =>
                 req[r].resp.file = <<req[r].url, req[r].audio_file>>
            /\ req[r].pc = "sent" => req[r].sent = <<req[r].url, req[r].audio_file>>

\* audio.mp3 served although another match exists, and a fallback match
\* served among two.
C7_Witness ==
    \E r1, r2 \in Requests :
        /\ req[r1].pc = "sent"
        /\ req[r1].env.out.files = {"mp3", "m4a"}
        /\ req[r1].sent[2] = "mp3"
        /\ req[r2].pc = "sent"
        /\ req[r2].env.out.files = {"m4a", "webm"}
        /\ req[r2].sent[2] = "webm"

\* No match at all: the request has failed with 500.
C7_WitnessNoMatch ==
    \E r \in Requests :
        /\ Finished(r)
        /\ req[r].env.out.kind = "ok"
        /\ req[r].env.out.files = {}
        /\ req[r].resp.status = 500

\* The state part of C8: distinct directories, only one's own files in one's
\* directory, only one's own file in one's response.
C8_Isolated ==
    \A r1, r2 \in Requests :
        (r1 # r2 /\ Validated(r1) /\ Validated(r2) /\ req[r1].url # req[r2].url) =>
            /\ (InWith(r1) /\ InWith(r2)) => req[r1].temp_dir # req[r2].temp_dir
            /\ InWith(r1) =>
                 /\ req[r1].temp_dir \in DOMAIN fs
                 /\ fs[req[r1].temp_dir].owner = r1
                 /\ \A e \in DOMAIN fs[req[r1].temp_dir].files :
                        fs[req[r1].temp_dir].files[e] = req[r1].url
                 /\ req[r1].pc # "extract" =>
                        DOMAIN fs[req[r1].temp_dir].files = req[r1].env.out.files
            /\ req[r1].resp.kind = "file" => req[r1].resp.file[1] = req[r1].url
            /\ req[r1].pc = "sent" => req[r1].sent[1] = req[r1].url

\* The step part of C8: a step of r1 leaves r2's variables and directory as
\* they are.
C8_Step ==
    \A r1, r2 \in Requests :
        (r1 # r2 /\ req'[r1] # req[r1]) =>
            /\ req'[r2] = req[r2]
            /\ (InWith(r2) /\ req[r2].temp_dir \in DOMAIN fs) =>
                  /\ req[r2].temp_dir \in DOMAIN fs'
                  /\ fs'[req[r2].temp_dir] = fs[req[r2].temp_dir]

\* C8: two requests for different URLs, under every interleaving, hold
\* distinct temporary directories, find only their own files there, are
\* served the file produced for their own URL, and no step of one changes
\* the other's variables or directory.
C8_Isolation == []C8_Isolated /\ [][C8_Step]_vars

\* Two requests for different URLs whose directories existed together and
\* which were both served.
C8_Witness ==
    \E r1, r2 \in Requests :
        /\ req[r1].url = U1 /\ req[r2].url = U2
        /\ req[r1].pc = "sent" /\ req[r1].sent[1] = U1
        /\ req[r2].pc = "cleanup" /\ req[r2].resp.kind = "file"
        /\ req[r2].temp_dir \in DOMAIN fs
        /\ req[r1].temp_dir # req[r2].temp_dir

\* C9: without a configured API_KEY, two requests with the same body and the
\* same behaviour of the collaborators get the same response whatever their
\* Authorization headers, and no response is a 401.
C9_HeaderIgnored ==
    ~Truthy(API_KEY) =>
        /\ \A r \in Requests : req[r].resp.status # 401
        /\ \A r1, r2 \in Requests :
             ( /\ Finished(r1) /\ Finished(r2)
               /\ req[r1].body = req[r2].body
               /\ req[r1].env = req[r2].env )
             => req[r1].resp = req[r2].resp

\* Two answered requests with the same body and different headers, one of
\* them a header that a configured key would reject.
C9_Witness ==
    /\ ~API_KEY.set
    /\ \E r1, r2 \in Requests :
        /\ Finished(r1) /\ Finished(r2)
        /\ req[r1].header = Unset
        /\ req[r2].header = Str(Basic \o K1)
        /\ req[r1].body = req[r2].body
        /\ req[r1].env = req[r2].env
        /\ req[r1].resp.status = 200

\* API_KEY set to the empty string counts as not configured.
C9_WitnessEmptyKey ==
    /\ API_KEY = Str(<<>>)
    /\ \E r \in Requests :
        /\ Finished(r)
        /\ req[r].header = Str(Bearer \o K2)
        /\ req[r].resp.status = 400

WellFormed(resp) ==
    \/ /\ resp.status = 200
       /\ resp.kind = "file"
       /\ resp.mimetype = "audio/mpeg"
       /\ resp.download_name = "audio.mp3"
       /\ resp.file # NoFile
       /\ resp.error = "" /\ resp.keys = {}
    \/ /\ resp.status \in {400, 401, 500}
       /\ resp.kind = "json"
       /\ "error" \in resp.keys
       /\ resp.error # ""
       /\ resp.file = NoFile

\* The state part of C10: nothing is uncaught, and a returned response is a
\* whole file response or a whole JSON error.
C10_Complete ==
    \A r \in Requests :
        /\ req[r].pc # "uncaught"
        /\ Finished(r) => WellFormed(req[r].resp)
        /\ req[r].pc = "sent" => req[r].sent = req[r].resp.file

\* The step part of C10: a returned response stays as it is.
C10_Once ==
    \A r \in Requests :
        Finished(r) => (Finished(r)' /\ req'[r].resp = req[r].resp)

====
